---- MODULE Spec2Model ----
(***************************************************************************)
(* A model of src/rta/wind.py: Grid, GriddedField with the module-wide     *)
(* k-d tree cache, and WindSkewProjector; and of three functions of        *)
(* src/wx_explore: clean_old_datas, cluster and wx_for_location.           *)
(*                                                                         *)
(* Python exceptions are modelled as outcomes: every call yields either    *)
(* Return(v) or Raise(e), e being the name of the exception class.         *)
(* Arrays are sequences; Python's 0-based index i is position i + 1.       *)
(***************************************************************************)
EXTENDS Integers, Sequences, FiniteSets

VARIABLES
    grid_call,      \* SpecGrid: the Grid constructor call made
    grid_out,       \* SpecGrid: its outcome, Return(grid) or Raise(e)
    KD_TREE_CACHE,  \* Spec: _KD_TREE_CACHE, a dict from shape to k-d tree
    trees,          \* Spec: the cKDTree objects built so far; a tree's identity
                    \*       is its position, trees[id] holds what it was built over
    fields,         \* Spec: the GriddedField objects constructed so far
    ctor_call,      \* Spec: the GriddedField constructor call made last: the shape
                    \*       of the values array handed over, and the grid
    ctor_out,       \* Spec: the outcome of that constructor call
    thr,            \* Spec: per calling thread, its position in k_nearest_points
                    \*       and its locals
    proj,           \* SpecProj: the attributes of the WindSkewProjector object
    proj_out,       \* SpecProj: the outcome of its constructor
    step_call,      \* SpecProj: the duration handed to the step call made last
    step_out,       \* SpecProj: the outcome of that step call
    nsteps,         \* SpecProj: the step calls made
    now,            \* SpecClean: datetime.utcnow(), in ticks
    file_meta,      \* SpecClean: the committed rows of FileMeta
    band_meta,      \* SpecClean: the committed rows of FileBandMeta
    s3,             \* SpecClean: the keys of the objects in the S3 bucket
    clean,          \* SpecClean: the position of clean_old_datas and its locals
    nbands,         \* SpecClean: the band rows ingestion has added
    cl,             \* SpecCluster: the call of cluster, its position and locals
    yielded,        \* SpecCluster: the tuples the generator has yielded
    req             \* SpecWindow: the request wx_for_location is serving, its
                    \*             position and locals

vars == <<grid_call, grid_out, KD_TREE_CACHE, trees, fields, ctor_call, ctor_out, thr,
          proj, proj_out, step_call, step_out, nsteps,
          now, file_meta, band_meta, s3, clean, nbands, cl, yielded, req>>
gridVars == <<grid_call, grid_out>>
cacheVars == <<KD_TREE_CACHE, trees, fields, ctor_call, ctor_out, thr>>
projVars == <<proj, proj_out, step_call, step_out, nsteps>>
cleanVars == <<now, file_meta, band_meta, s3, clean, nbands>>
clusterVars == <<cl, yielded>>
windowVars == <<req>>
wxVars == <<cleanVars, clusterVars, windowVars>>

\* ------------------------------------------------------------------ bounds
MaxAxisLen == 2     \* longest axis handed to from_unique_arrays
MaxCoord == 2       \* coordinates and range limits are drawn from 0..MaxCoord
MaxStep == 2        \* range steps are drawn from -1..MaxStep
MaxFields == 2      \* GriddedFields constructed in one run
MaxCalls == 2       \* lookups or resamplings one thread makes in one run
MaxSteps == 2       \* step calls made on one projector
MaxTime == 3        \* the clock runs from 0 to MaxTime ticks
MaxCleans == 1      \* runs of clean_old_datas
MaxBands == 2       \* band rows ingestion adds in one run
MaxPoints == 3      \* data points handed to cluster
MaxHour == 5        \* valid times are drawn from 1..MaxHour
\* Floating-point numbers are modelled as binary floating point of a small
\* width: Precision significand bits, and a spacing of 2^-FracBits below the
\* least normal number. A number is written as its multiple of 2^-FracBits.
Precision == 3
FracBits == 4

\* ------------------------------------------------------------- outcomes
Return(v) == [raised |-> FALSE, val |-> v]
Raise(e) == [raised |-> TRUE, exc |-> e]
NoCall == [name |-> "none"]

\* ------------------------------------------------------------------ numpy
\* numpy.repeat(a, n): every element n times in a row.
RECURSIVE repeat(_, _)
repeat(a, n) ==
    IF a = <<>> THEN <<>>
    ELSE [i \in 1..n |-> Head(a)] \o repeat(Tail(a), n)

\* numpy.tile(a, reps): the whole of a, reps times.
RECURSIVE tile(_, _)
tile(a, reps) ==
    IF reps = 0 THEN <<>> ELSE a \o tile(a, reps - 1)

\* The number of elements of numpy.arange(start, stop, step), step # 0:
\* ceil((stop - start) / step), and none when that is negative.
arange_len(start, stop, step) ==
    LET span == stop - start
        q == IF step > 0 THEN (span + step - 1) \div step
             ELSE ((-span) + (-step) - 1) \div (-step)
    IN  IF q > 0 THEN q ELSE 0

\* numpy.arange(start, stop, step) on Python integers: start, start + step,
\* ... strictly before stop; a zero step divides by zero.
arange(start, stop, step) ==
    IF step = 0 THEN Raise("ZeroDivisionError")
    ELSE Return([i \in 1..arange_len(start, stop, step) |-> start + (i - 1) * step])

\* ------------------------------------------------- floating-point numbers
RECURSIVE Pow2(_)
Pow2(n) == IF n = 0 THEN 1 ELSE 2 * Pow2(n - 1)

\* The spacing of the representable numbers around n >= 0.
RECURSIVE Ulp(_)
Ulp(n) == IF n < Pow2(Precision) THEN 1 ELSE 2 * Ulp(n \div 2)

\* The representable number nearest to num / den (num >= 0, den > 0), a tie
\* going to the even significand.
RoundRatio(num, den) ==
    LET u == Ulp(num \div den)
        k == num \div (den * u)
        rem == num - k * den * u
    IN  IF 2 * rem < den * u THEN k * u
        ELSE IF 2 * rem > den * u THEN (k + 1) * u
        ELSE (k + (k % 2)) * u

fl(n) == IF n >= 0 THEN RoundRatio(n, 1) ELSE -RoundRatio(-n, 1)
fadd(a, b) == fl(a + b)
fsub(a, b) == fl(a - b)
\* i * a for an integer count i.
fmul_int(i, a) == fl(i * a)
\* a / b, b # 0, as a multiple of 2^-FracBits.
fdiv(a, b) ==
    LET num == (IF a >= 0 THEN a ELSE -a) * Pow2(FracBits)
        den == IF b >= 0 THEN b ELSE -b
    IN  IF (a >= 0) = (b >= 0) THEN RoundRatio(num, den) ELSE -RoundRatio(num, den)
\* ceil(q) of a number q, as an integer.
fceil(q) == -((-q) \div Pow2(FracBits))

\* numpy.arange(start, stop, step) on floats: ceil((stop - start) / step)
\* elements; the first is start, the second start + step, and element i is
\* start + i * delta with delta the difference of the first two, every
\* operation rounded. A zero step divides by zero.
arange_float(start, stop, step) ==
    IF step = 0 THEN Raise("ZeroDivisionError")
    ELSE LET length == fceil(fdiv(fsub(stop, start), step))
             next == fadd(start, step)
             delta == fsub(next, start)
         IN  Return([i \in 1..(IF length > 0 THEN length ELSE 0) |->
                        IF i = 1 THEN start
                        ELSE IF i = 2 THEN next
                        ELSE fadd(start, fmul_int(i - 1, delta))])

\* ------------------------------------------------------------------- Grid
\* Grid.__init__: numpy.ravel flattens; the axes handed over here are 1-D,
\* which ravel returns element for element.
ravel(a) == [i \in 1..Len(a) |-> a[i]]

Grid(lats, lons, shape) ==
    [lats |-> ravel(lats), lons |-> ravel(lons), shape |-> shape]

from_unique_arrays_swapped(lats, lons) ==
    LET all_lats == tile(lats, Len(lons))
        all_lons == repeat(lons, Len(lats))
    IN  Grid(all_lats, all_lons, <<Len(lats), Len(lons)>>)

from_unique_arrays(lats, lons) ==
    LET all_lats == repeat(lats, Len(lons))
        all_lons == tile(lons, Len(lats))
    IN  Grid(all_lats, all_lons, <<Len(lats), Len(lons)>>)

from_ranges_zero_is_empty(lat_min, lat_max, lat_step, lon_min, lon_max, lon_step) ==
    LET lats == IF lat_step = 0 THEN Return(<<>>) ELSE arange(lat_min, lat_max, lat_step)
        lons == IF lon_step = 0 THEN Return(<<>>) ELSE arange(lon_min, lon_max, lon_step)
    IN  Return(from_unique_arrays(lats.val, lons.val))

from_ranges(lat_min, lat_max, lat_step, lon_min, lon_max, lon_step) ==
    LET lats == arange(lat_min, lat_max, lat_step)
        lons == arange(lon_min, lon_max, lon_step)
    IN  IF lats.raised THEN lats
        ELSE IF lons.raised THEN lons
        ELSE Return(from_unique_arrays(lats.val, lons.val))

\* from_ranges on floating-point arguments.
from_ranges_float(lat_min, lat_max, lat_step, lon_min, lon_max, lon_step) ==
    LET lats == arange_float(lat_min, lat_max, lat_step)
        lons == arange_float(lon_min, lon_max, lon_step)
    IN  IF lats.raised THEN lats
        ELSE IF lons.raised THEN lons
        ELSE Return(from_unique_arrays(lats.val, lons.val))

\* -------------------------------------------------- SpecGrid: constructors
Coords == 0..MaxCoord
Steps == (-1)..MaxStep

RECURSIVE SeqsUpTo(_, _)
SeqsUpTo(S, n) ==
    IF n = 0 THEN {<<>>}
    ELSE LET shorter == SeqsUpTo(S, n - 1)
         IN  shorter \cup {Append(s, x) : s \in {t \in shorter : Len(t) = n - 1}, x \in S}

AxisInputs == SeqsUpTo(Coords, MaxAxisLen)

\* Floating-point range arguments, in multiples of 2^-FracBits.
FloatMins == {0, 1}
FloatMaxs == {12, 16}
FloatSteps == {4, 10}

\* The calls the driver can make: the inputs are drawn here, the call itself is
\* one step.
GridCalls ==
    {[name |-> "from_unique_arrays", lats |-> lats, lons |-> lons] :
        lats \in AxisInputs, lons \in AxisInputs}
    \cup
    {[name |-> "from_ranges", dtype |-> "int",
      lat_min |-> r[1], lat_max |-> r[2], lat_step |-> r[3],
      lon_min |-> r[4], lon_max |-> r[5], lon_step |-> r[6]] :
        r \in Coords \X Coords \X Steps \X Coords \X Coords \X Steps}
    \cup
    {[name |-> "from_ranges", dtype |-> "float",
      lat_min |-> r[1], lat_max |-> r[2], lat_step |-> r[3],
      lon_min |-> r[4], lon_max |-> r[5], lon_step |-> r[6]] :
        r \in FloatMins \X FloatMaxs \X FloatSteps \X FloatMins \X FloatMaxs \X FloatSteps}

\* The module as imported, before anything is constructed (line 8: the cache
\* is an empty dict).
NoThread == [pc |-> "idle", call |-> NoCall, self |-> 0, ret |-> <<>>, used |-> 0,
             out |-> NoCall, ncalls |-> 0]
Threads == {"t1", "t2"}

NoProjector ==
    /\ proj = <<>>
    /\ proj_out = NoCall
    /\ step_call = 0
    /\ step_out = NoCall
    /\ nsteps = 0

CacheAtImport ==
    /\ KD_TREE_CACHE = <<>>
    /\ trees = <<>>
    /\ fields = <<>>
    /\ ctor_call = NoCall
    /\ ctor_out = NoCall
    /\ thr = [t \in Threads |-> NoThread]

\* Nothing of wx_explore has run.
NoCleanup ==
    /\ now = 0
    /\ file_meta = {}
    /\ band_meta = {}
    /\ s3 = {}
    /\ clean = [pc |-> "idle", max_age |-> 0, files |-> {}, out |-> NoCall, ncleans |-> 0]
    /\ nbands = 0
NoCluster ==
    /\ cl = NoCall
    /\ yielded = <<>>
NoWindow ==
    req = [pc |-> "idle", call |-> NoCall, now |-> NoCall, start |-> NoCall,
           end |-> NoCall, out |-> NoCall]
NoWx == NoCleanup /\ NoCluster /\ NoWindow

InitGrid ==
    /\ grid_call \in GridCalls
    /\ grid_out = NoCall
    /\ CacheAtImport
    /\ NoProjector
    /\ NoWx

Call_from_unique_arrays ==
    /\ grid_out = NoCall
    /\ grid_call.name = "from_unique_arrays"
    /\ grid_out' = Return(from_unique_arrays(grid_call.lats, grid_call.lons))
    /\ UNCHANGED <<grid_call, cacheVars, projVars, wxVars>>

Call_from_ranges ==
    /\ grid_out = NoCall
    /\ grid_call.name = "from_ranges"
    /\ grid_out' =
        IF grid_call.dtype = "float"
        THEN from_ranges_float(grid_call.lat_min, grid_call.lat_max, grid_call.lat_step,
                               grid_call.lon_min, grid_call.lon_max, grid_call.lon_step)
        ELSE from_ranges(grid_call.lat_min, grid_call.lat_max, grid_call.lat_step,
                         grid_call.lon_min, grid_call.lon_max, grid_call.lon_step)
    /\ UNCHANGED <<grid_call, cacheVars, projVars, wxVars>>

NextGrid ==
    \/ Call_from_unique_arrays
    \/ Call_from_ranges

SpecGrid == InitGrid /\ [][NextGrid]_vars

\* ------------------------------------------------------------ claims: Grid
FromAxesCalled == grid_call.name = "from_unique_arrays" /\ grid_out # NoCall
FromRangesCalled == grid_call.name = "from_ranges" /\ grid_out # NoCall

\* C9: the grid built by from_axes(lats, lons) has shape (len(lats), len(lons)),
\* holds len(lats) * len(lons) points, and its point at flat index i is
\* (lats[i // len(lons)], lons[i % len(lons)]): row-major, latitude slowest.
C9_RowMajor ==
    FromAxesCalled =>
        LET lats == grid_call.lats
            lons == grid_call.lons
            n == Len(lats) * Len(lons)
            g == grid_out.val
        IN  /\ ~grid_out.raised
            /\ g.shape = <<Len(lats), Len(lons)>>
            /\ Len(g.lats) = n
            /\ Len(g.lons) = n
            /\ \A i \in 0..(n - 1) :
                /\ g.lats[i + 1] = lats[(i \div Len(lons)) + 1]
                /\ g.lons[i + 1] = lons[(i % Len(lons)) + 1]

C9_Witness ==
    /\ FromAxesCalled
    /\ grid_call.lats = <<0, 1>>
    /\ grid_call.lons = <<2, 0>>
    /\ ~grid_out.raised
    /\ grid_out.val.lats = <<0, 0, 1, 1>>
    /\ grid_out.val.lons = <<2, 0, 2, 0>>

ZeroStepCall ==
    /\ FromRangesCalled
    /\ (grid_call.lat_step = 0 \/ grid_call.lon_step = 0)

AxisOf(dtype, min, max, step) ==
    IF dtype = "float" THEN arange_float(min, max, step).val ELSE arange(min, max, step).val

\* An axis that starts at min, ascends, and stops strictly before max.
IsHalfOpen(axis, min, max) ==
    /\ (Len(axis) > 0) <=> (min < max)
    /\ Len(axis) > 0 => axis[1] = min
    /\ \A i \in 1..Len(axis) : axis[i] < max
    /\ \A i \in 1..(Len(axis) - 1) : axis[i] < axis[i + 1]

\* C16: for positive steps from_ranges generates each axis from min in steps,
\* stopping strictly before max, so that max is never an axis value, and the
\* grid it returns is from_axes of those two axes.
C16_HalfOpenRanges ==
    (FromRangesCalled /\ grid_call.lat_step > 0 /\ grid_call.lon_step > 0) =>
        /\ ~grid_out.raised
        /\ LET lats == AxisOf(grid_call.dtype, grid_call.lat_min, grid_call.lat_max,
                              grid_call.lat_step)
               lons == AxisOf(grid_call.dtype, grid_call.lon_min, grid_call.lon_max,
                              grid_call.lon_step)
           IN  /\ IsHalfOpen(lats, grid_call.lat_min, grid_call.lat_max)
               /\ IsHalfOpen(lons, grid_call.lon_min, grid_call.lon_max)
               /\ grid_out.val = from_unique_arrays(lats, lons)

\* ------------------------------------------------- cKDTree (scipy.spatial)
None == 0

\* numpy.dstack([lats, lons])[0]: the (lat, lon) pairs, one per point.
pairs_of(lats, lons) == [i \in 1..Len(lats) |-> <<lats[i], lons[i]>>]

\* Squared planar distance between two (lat, lon) pairs.
Dist2(p, q) == (p[1] - q[1]) * (p[1] - q[1]) + (p[2] - q[2]) * (p[2] - q[2])

\* cKDTree.query(q, k=1)[1] for one query point: the 0-based index of a stored
\* point at the least distance; which one of several at the same distance is
\* not specified. A tree over no points answers with the index n = 0 that
\* marks a missing neighbour (at infinite distance).
Nearest(points, q) ==
    IF points = <<>> THEN {Len(points)}
    ELSE {i - 1 : i \in {j \in 1..Len(points) :
                      \A k \in 1..Len(points) : Dist2(points[j], q) <= Dist2(points[k], q)}}

\* cKDTree.query over an array of query points: one index per query point.
QueryResults(points, qs) ==
    {s \in [1..Len(qs) -> 0..Len(points)] :
        \A j \in 1..Len(qs) : s[j] \in Nearest(points, qs[j])}

\* ------------------------------------------------------------ GriddedField
\* dict.get(key): the value stored under key, or None.
cache_get(cache, key) == IF key \in DOMAIN cache THEN cache[key] ELSE None

\* dict[key] = value
cache_put(cache, key, value) ==
    [k \in (DOMAIN cache) \cup {key} |-> IF k = key THEN value ELSE cache[k]]

\* numpy reshape of a flat array to (rows, cols): row r holds the elements
\* r * cols .. r * cols + cols - 1.
reshape(values, shape) ==
    [r \in 1..shape[1] |-> [c \in 1..shape[2] |-> values[(r - 1) * shape[2] + c]]]

\* A constructor that keeps the flat array as it was handed over.
GriddedField_not_reshaped(values, grid, cache) ==
    IF Len(values) # grid.shape[1] * grid.shape[2] THEN Raise("ValueError")
    ELSE Return([grid |-> grid,
                 values |-> <<values>>,
                 lats |-> grid.lats,
                 lons |-> grid.lons,
                 shape |-> grid.shape,
                 kd_tree |-> cache_get(cache, grid.shape)])

\* GriddedField.__init__ on a flat values array: reshaped to the grid's shape
\* (numpy raises ValueError when the sizes differ), and kd_tree is whatever
\* the cache holds for the shape at this moment.
GriddedField(values, grid, cache) ==
    IF Len(values) # grid.shape[1] * grid.shape[2] THEN Raise("ValueError")
    ELSE Return([grid |-> grid,
                 values |-> reshape(values, grid.shape),
                 lats |-> grid.lats,
                 lons |-> grid.lons,
                 shape |-> grid.shape,
                 kd_tree |-> cache_get(cache, grid.shape)])

\* numpy ravel of a two-dimensional array, row after row.
ravel2(values, shape) ==
    [i \in 1..(shape[1] * shape[2]) |->
        values[((i - 1) \div shape[2]) + 1][((i - 1) % shape[2]) + 1]]

\* GriddedField.__init__ on a two-dimensional values array of shape in_shape:
\* kept as it is when the shape is the grid's, reshaped otherwise.
GriddedField2(values, in_shape, grid, cache) ==
    IF in_shape = grid.shape
    THEN Return([grid |-> grid,
                 values |-> values,
                 lats |-> grid.lats,
                 lons |-> grid.lons,
                 shape |-> grid.shape,
                 kd_tree |-> cache_get(cache, grid.shape)])
    ELSE GriddedField(ravel2(values, in_shape), grid, cache)

\* round(s * (n / s)): the length scipy.ndimage.zoom gives to an axis of length
\* s > 0 under the zoom factor n / s.
zoom_len(s, n) == (2 * s * n + s) \div (2 * s)

\* Line 89: the shape of the zoomed array. The factors are len(grid.lats) and
\* len(grid.lons), the lengths of the grid's flattened coordinate arrays, over
\* the field's own shape; a zero in that shape is a division by zero.
zoom_shape(self, grid) ==
    IF self.shape[1] = 0 \/ self.shape[2] = 0 THEN Raise("ZeroDivisionError")
    ELSE Return(<<zoom_len(self.shape[1], Len(grid.lats)),
                  zoom_len(self.shape[2], Len(grid.lons))>>)

\* A cell of a zoomed array whose source coordinate falls between cells: some
\* value of the spline, not a value this model computes.
Interpolated == "interpolated"

\* The 0-based source coordinate of output position o along an axis zoomed
\* from in_len to out_len cells (the ends of the axes coincide), or -1 when it
\* falls between two cells.
zoom_coord(o, in_len, out_len) ==
    IF out_len = 1 THEN 0
    ELSE IF (o * (in_len - 1)) % (out_len - 1) = 0
         THEN (o * (in_len - 1)) \div (out_len - 1)
         ELSE -1

\* scipy.ndimage.zoom(values, factors) for an output of out_shape: the spline
\* passes through the source values at whole coordinates.
ndimage_zoom(values, in_shape, out_shape) ==
    [r \in 1..out_shape[1] |-> [c \in 1..out_shape[2] |->
        LET sr == zoom_coord(r - 1, in_shape[1], out_shape[1])
            sc == zoom_coord(c - 1, in_shape[2], out_shape[2])
        IN  IF sr < 0 \/ sc < 0 THEN Interpolated ELSE values[sr + 1][sc + 1]]]

\* GriddedField.zoom(grid): the zoomed values bound to grid by the constructor.
zoom(self, grid, cache) ==
    LET out_shape == zoom_shape(self, grid)
    IN  IF out_shape.raised THEN out_shape
        ELSE GriddedField2(ndimage_zoom(self.values, self.shape, out_shape.val),
                           out_shape.val, grid, cache)

\* Line 70: (idx // shape[1], idx % shape[1]), for a scalar index and,
\* element by element, for an array of indexes.
row_col(idx, shape) == <<idx \div shape[2], idx % shape[2]>>
row_col_array(idxs, shape) ==
    <<[j \in 1..Len(idxs) |-> idxs[j] \div shape[2]],
      [j \in 1..Len(idxs) |-> idxs[j] % shape[2]]>>

\* The methods of a Python list: what grid_idxs, the list that
\* k_nearest_points returns, can be asked for.
ListMethods == {"append", "clear", "copy", "count", "extend", "index", "insert",
                "pop", "remove", "reverse", "sort"}
list_getattr(name) == IF name \in ListMethods THEN Return(name) ELSE Raise("AttributeError")

\* Lines 85-86: the values at the gathered (row, col) indexes, bound to grid.
gather(values, rows, cols) == [j \in 1..Len(rows) |-> values[rows[j] + 1][cols[j] + 1]]

\* ------------------------------------------------------ Spec: its inputs
\* Two grids of one shape with different longitudes, one of another shape,
\* and one with no points (an empty latitude axis).
Grids == {from_unique_arrays(<<0>>, <<0, 1>>),
          from_unique_arrays(<<0>>, <<2, 0>>),
          from_unique_arrays(<<0, 1>>, <<0, 1>>),
          from_unique_arrays(<<>>, <<0, 1>>)}
GridSize(g) == g.shape[1] * g.shape[2]
\* Flat value arrays for a grid: a ramp, its reverse, and one of a wrong size.
ValueInputs(g) ==
    {[i \in 1..GridSize(g) |-> i],
     [i \in 1..GridSize(g) |-> 10 - i],
     [i \in 1..(GridSize(g) + 1) |-> i]}
QueryPoints == {<<0, 0>>, <<1, 1>>}

InitCache ==
    /\ grid_call = NoCall
    /\ grid_out = NoCall
    /\ CacheAtImport
    /\ NoProjector
    /\ NoWx

\* GriddedField(values, grid), the whole constructor.
NewGriddedField ==
    /\ Len(fields) < MaxFields
    /\ \E g \in Grids : \E values \in ValueInputs(g) :
        LET made == GriddedField(values, g, KD_TREE_CACHE)
        IN  /\ ctor_call' = [in_shape |-> <<Len(values)>>, grid |-> g]
            /\ ctor_out' = IF made.raised THEN made ELSE Return(Len(fields) + 1)
            /\ fields' = IF made.raised THEN fields ELSE Append(fields, made.val)
    /\ UNCHANGED <<KD_TREE_CACHE, trees, thr, gridVars, projVars, wxVars>>

\* A thread enters nearest_point(lat, lon) on a field: line 76 calls
\* k_nearest_points([(lat, lon)], k=1).
Call_nearest_point(t) ==
    /\ thr[t].pc = "idle"
    /\ thr[t].ncalls < MaxCalls
    /\ \E f \in 1..Len(fields), q \in QueryPoints :
        thr' = [thr EXCEPT ![t] = [@ EXCEPT !.pc = "L62",
                                            !.call = [name |-> "nearest_point", q |-> q],
                                            !.self = f,
                                            !.ret = <<>>,
                                            !.out = NoCall,
                                            !.ncalls = @ + 1]]
    /\ UNCHANGED <<KD_TREE_CACHE, trees, fields, ctor_call, ctor_out, gridVars, projVars, wxVars>>

\* A thread enters resample_to_grid(grid) on a field: line 82 calls
\* k_nearest_points(grid.pairs, k=1).
Call_resample_to_grid(t) ==
    /\ thr[t].pc = "idle"
    /\ thr[t].ncalls < MaxCalls
    /\ \E f \in 1..Len(fields), g \in Grids :
        thr' = [thr EXCEPT ![t] = [@ EXCEPT !.pc = "L62",
                                            !.call = [name |-> "resample_to_grid", grid |-> g],
                                            !.self = f,
                                            !.ret = <<>>,
                                            !.out = NoCall,
                                            !.ncalls = @ + 1]]
    /\ UNCHANGED <<KD_TREE_CACHE, trees, fields, ctor_call, ctor_out, gridVars, projVars, wxVars>>

\* Line 62: if self.kd_tree is None
L62_check(t) ==
    /\ thr[t].pc = "L62"
    /\ thr' = [thr EXCEPT ![t].pc = IF fields[thr[t].self].kd_tree = None THEN "L63" ELSE "L66"]
    /\ UNCHANGED <<KD_TREE_CACHE, trees, fields, ctor_call, ctor_out, gridVars, projVars, wxVars>>

\* Line 63: self.kd_tree = cKDTree(numpy.dstack([self.lats, self.lons])[0]).
\* The code makes no check of the number of points, and cKDTree accepts an
\* array of no points.
L63_build(t) ==
    /\ thr[t].pc = "L63"
    /\ LET me == fields[thr[t].self]
       IN  /\ trees' = Append(trees, [points |-> pairs_of(me.lats, me.lons), key |-> me.shape])
           /\ fields' = [fields EXCEPT ![thr[t].self].kd_tree = Len(trees) + 1]
    /\ thr' = [thr EXCEPT ![t].pc = "L64"]
    /\ UNCHANGED <<KD_TREE_CACHE, ctor_call, ctor_out, gridVars, projVars, wxVars>>

\* Line 64: _KD_TREE_CACHE[self.shape] = self.kd_tree
L64_store(t) ==
    /\ thr[t].pc = "L64"
    /\ LET me == fields[thr[t].self]
       IN  KD_TREE_CACHE' = cache_put(KD_TREE_CACHE, me.shape, me.kd_tree)
    /\ thr' = [thr EXCEPT ![t].pc = "L66"]
    /\ UNCHANGED <<trees, fields, ctor_call, ctor_out, gridVars, projVars, wxVars>>

\* Lines 66-70: the query on self.kd_tree and the conversion of what it
\* returns to (row, col). nearest_point hands over one point and gets an
\* array of one index; resample_to_grid hands over grid.pairs, of shape
\* (1, N, 2), and gets one array of N indexes, which line 70 converts as a whole.
\* What query returns is a numpy array in both cases, never a Python int, so
\* the test on line 67 is false and line 68 does not run.
L66_query(t) ==
    /\ thr[t].pc = "L66"
    /\ LET me == fields[thr[t].self]
           tree == trees[me.kd_tree]
           call == thr[t].call
           qs == IF call.name = "nearest_point" THEN <<call.q>>
                 ELSE pairs_of(call.grid.lats, call.grid.lons)
       IN  \E idxs \in QueryResults(tree.points, qs) :
              thr' = [thr EXCEPT ![t] = [@ EXCEPT
                        !.used = me.kd_tree,
                        !.ret = IF call.name = "nearest_point"
                                THEN [j \in 1..Len(idxs) |-> row_col(idxs[j], me.shape)]
                                ELSE <<row_col_array(idxs, me.shape)>>,
                        !.pc = IF call.name = "nearest_point" THEN "L76" ELSE "L84"]]
    /\ UNCHANGED <<KD_TREE_CACHE, trees, fields, ctor_call, ctor_out, gridVars, projVars, wxVars>>

\* Line 76: nearest_point returns the first element of the list.
L76_return(t) ==
    /\ thr[t].pc = "L76"
    /\ thr' = [thr EXCEPT ![t] = [@ EXCEPT !.out = Return(thr[t].ret[1]), !.pc = "idle"]]
    /\ UNCHANGED <<KD_TREE_CACHE, trees, fields, ctor_call, ctor_out, gridVars, projVars, wxVars>>

\* Lines 84-86: grid_idxs.transpose() on the list k_nearest_points returned,
\* then the gather and the new field.
L84_transpose(t) ==
    /\ thr[t].pc = "L84"
    /\ LET me == fields[thr[t].self]
           grid_idxs == thr[t].ret
           method == list_getattr("transpose")
           grid_vals == gather(me.values, grid_idxs[1][1], grid_idxs[1][2])
       IN  thr' = [thr EXCEPT ![t] = [@ EXCEPT
                     !.out = IF method.raised THEN method
                             ELSE GriddedField(grid_vals, thr[t].call.grid, KD_TREE_CACHE),
                     !.pc = "idle"]]
    /\ UNCHANGED <<KD_TREE_CACHE, trees, fields, ctor_call, ctor_out, gridVars, projVars, wxVars>>

\* Target grids of zoom: one point, and two points in a row.
ZoomGrids == {from_unique_arrays(<<0>>, <<0>>), from_unique_arrays(<<0>>, <<0, 1>>)}

\* field.zoom(grid) between two other calls: the whole call, the constructor
\* call at its end included; a call that fails before the constructor leaves
\* everything as it was.
Call_zoom ==
    /\ \A t \in Threads : thr[t].pc = "idle"
    /\ Len(fields) < MaxFields
    /\ \E f \in DOMAIN fields : \E g \in ZoomGrids :
        LET out_shape == zoom_shape(fields[f], g)
            made == zoom(fields[f], g, KD_TREE_CACHE)
        IN  IF out_shape.raised
            THEN UNCHANGED <<ctor_call, ctor_out, fields>>
            ELSE /\ ctor_call' = [in_shape |-> out_shape.val, grid |-> g]
                 /\ ctor_out' = IF made.raised THEN made ELSE Return(Len(fields) + 1)
                 /\ fields' = IF made.raised THEN fields ELSE Append(fields, made.val)
    /\ UNCHANGED <<KD_TREE_CACHE, trees, thr, gridVars, projVars, wxVars>>

\* The program as written is one thread: it constructs fields, looks points
\* up and resamples, each call running to its end before the next.
MainThread == "t1"

\* In the one-threaded program a constructor runs between calls, not inside one.
NewGriddedFieldSeq ==
    /\ thr[MainThread].pc = "idle"
    /\ NewGriddedField

NextSeq ==
    \/ NewGriddedFieldSeq
    \/ Call_zoom
    \/ Call_nearest_point(MainThread)
    \/ Call_resample_to_grid(MainThread)
    \/ L62_check(MainThread)
    \/ L63_build(MainThread)
    \/ L64_store(MainThread)
    \/ L66_query(MainThread)
    \/ L76_return(MainThread)
    \/ L84_transpose(MainThread)

SpecSeq == InitCache /\ [][NextSeq]_vars

\* Lookups from several threads: under the interpreter lock a thread can be
\* preempted between any two lines of k_nearest_points.
Next ==
    \/ NewGriddedField
    \/ \E t \in Threads : Call_nearest_point(t)
    \/ \E t \in Threads : L62_check(t)
    \/ \E t \in Threads : L63_build(t)
    \/ \E t \in Threads : L64_store(t)
    \/ \E t \in Threads : L66_query(t)
    \/ \E t \in Threads : L76_return(t)

Spec == InitCache /\ [][Next]_vars

\* ----------------------------------------------- claims: the index cache
\* A thread whose call has ended, and the call it was.
Finished(t) == thr[t].pc = "idle" /\ thr[t].out # NoCall
Key(t) == fields[thr[t].self].shape
TreesBuiltFor(key) == {id \in DOMAIN trees : trees[id].key = key}

\* C1: two lookups with the same cache key obtain the same built index object:
\* at most one index is ever built for a key, and a finished lookup has used
\* the index the cache holds for its key.
C1_BuiltOncePerKey ==
    /\ \A key \in {g.shape : g \in Grids} : Cardinality(TreesBuiltFor(key)) <= 1
    /\ Finished(MainThread) =>
        thr[MainThread].used = cache_get(KD_TREE_CACHE, Key(MainThread))

\* C2: a finished lookup on a field was answered from an index built over the
\* points of that field's own grid.
C2_IndexOverOwnGrid ==
    \A t \in Threads :
        Finished(t) =>
            trees[thr[t].used].points
                = pairs_of(fields[thr[t].self].grid.lats, fields[thr[t].self].grid.lons)

\* C3: two threads that ran the get-or-build path for the same cache key have
\* used the same index object. Stated for two threads on one shared field (one
\* key), where the order in which fields were constructed plays no part.
C3_RacersShareIndex ==
    \A t1 \in Threads, t2 \in Threads :
        (Finished(t1) /\ Finished(t2) /\ thr[t1].self = thr[t2].self)
            => thr[t1].used = thr[t2].used

\* ------------------------------------------------------ claims: resampling
\* The values array of a field has the rows and columns of its grid.
HasGridShape(f) ==
    /\ Len(f.values) = f.grid.shape[1]
    /\ \A r \in 1..Len(f.values) : Len(f.values[r]) = f.grid.shape[2]

FinishedResample(t) == Finished(t) /\ thr[t].call.name = "resample_to_grid"
CellValues(values) == {values[r][c] : r \in DOMAIN values, c \in 1..Len(values[1])}

\* C7: resampling a field onto its own grid returns a field whose values equal
\* the field's values in every cell.
C7_ResampleOwnGridIdentity ==
    (FinishedResample(MainThread)
        /\ thr[MainThread].call.grid = fields[thr[MainThread].self].grid)
    => /\ ~thr[MainThread].out.raised
       /\ thr[MainThread].out.val.values = fields[thr[MainThread].self].values

\* C8: resample_to returns a field, and each of its values is the value of some
\* cell of the source field.
C8_ResampleValuesFromSource ==
    FinishedResample(MainThread)
    => /\ ~thr[MainThread].out.raised
       /\ CellValues(thr[MainThread].out.val.values)
            \subseteq CellValues(fields[thr[MainThread].self].values)

\* C15: building an index over a grid of zero points raises EmptyGridError: no
\* index over zero points is ever built, none is stored in the cache, and the
\* lookup it was built for ends in EmptyGridError.
C15_EmptyGridError ==
    /\ \A id \in DOMAIN trees : trees[id].points # <<>>
    /\ \A key \in DOMAIN KD_TREE_CACHE : key[1] * key[2] # 0
    /\ (Finished(MainThread) /\ GridSize(fields[thr[MainThread].self].grid) = 0)
        => (thr[MainThread].out.raised /\ thr[MainThread].out.exc = "EmptyGridError")

\* C14: resample_to returns a field bound to exactly the target grid it was
\* given, with values of that grid's shape.
C14_ResampleBoundToTargetGrid ==
    FinishedResample(MainThread)
    => /\ ~thr[MainThread].out.raised
       /\ thr[MainThread].out.val.grid = thr[MainThread].call.grid
       /\ HasGridShape(thr[MainThread].out.val)

\* ------------------------------------------------------ WindSkewProjector
\* Wind speeds are written in units of m_per_deg / 60 m/s (line 122): a wind
\* of w carries a parcel at the equator w degrees in STEP_DURATION seconds.
STEP_DURATION == 60

\* What a GriddedField instance can be asked for: the attributes __init__
\* assigns (lines 39-47) and the methods of the class (lines 49-90).
GriddedFieldAttrs ==
    {"grid", "values", "lats", "lons", "shape", "kd_tree", "from_grib_msg",
     "k_nearest_points", "nearest_point", "resample_to_grid", "zoom"}
field_getattr(name) ==
    IF name \in GriddedFieldAttrs THEN Return(name) ELSE Raise("AttributeError")

\* WindSkewProjector.__init__: the attributes of self when the constructor
\* ends, and how it ends. The three fields are assigned before the shapes are
\* compared.
WindSkewProjector_uv_unchecked(target_field, u_wind_field, v_wind_field) ==
    LET assigned == [target_field |-> target_field,
                     u_wind_field |-> u_wind_field,
                     v_wind_field |-> v_wind_field]
    IN  IF ~(target_field.shape = u_wind_field.shape)
        THEN [self |-> assigned, out |-> Raise("ValueError")]
        ELSE [self |-> [target_field |-> target_field,
                        u_wind_field |-> u_wind_field,
                        v_wind_field |-> v_wind_field,
                        values |-> target_field.values],
              out |-> Return("projector")]

WindSkewProjector(target_field, u_wind_field, v_wind_field) ==
    LET assigned == [target_field |-> target_field,
                     u_wind_field |-> u_wind_field,
                     v_wind_field |-> v_wind_field]
    IN  IF ~(target_field.shape = u_wind_field.shape
             /\ u_wind_field.shape = v_wind_field.shape)
        THEN [self |-> assigned, out |-> Raise("ValueError")]
        ELSE [self |-> [target_field |-> target_field,
                        u_wind_field |-> u_wind_field,
                        v_wind_field |-> v_wind_field,
                        values |-> target_field.values],
              out |-> Return("projector")]

\* numpy.cos(numpy.radians(lat)) in units of 1 / CosScale, for the latitudes of
\* the grids used here.
CosScale == 100000
cos_radians(lat) == IF lat = 0 THEN CosScale ELSE 99985

\* Lines 134-139, the body of the loop for the cell (lat_idx, lon_idx) at
\* latitude lat: the winds in degrees per second and the displacements over
\* step_duration, in units of 1 / (STEP_DURATION * CosScale) degree. Line 139
\* computes v_wind from u_wind_ms.
u_wind_ms(self, lat_idx, lon_idx, lat) ==
    self.u_wind_field.values[lat_idx + 1][lon_idx + 1] * cos_radians(lat)
v_wind_ms(self, lat_idx, lon_idx) ==
    self.v_wind_field.values[lat_idx + 1][lon_idx + 1] * CosScale
u_wind(self, lat_idx, lon_idx, lat, step_duration) ==
    u_wind_ms(self, lat_idx, lon_idx, lat) * step_duration
v_wind(self, lat_idx, lon_idx, lat, step_duration) ==
    u_wind_ms(self, lat_idx, lon_idx, lat) * step_duration

\* _compute_new_indexes: line 124 asks the target field for get_coord_pairs,
\* which no GriddedField has. Past it, the loop's first pass reads new_lon_idx
\* (line 141) before anything is assigned to it; with no cell to pass over,
\* the empty index array is returned.
compute_new_indexes(self, step_duration) ==
    LET get_coord_pairs == field_getattr("get_coord_pairs")
        coord_pairs == pairs_of(self.target_field.lats, self.target_field.lons)
    IN  IF get_coord_pairs.raised THEN get_coord_pairs
        ELSE IF Len(coord_pairs) > 0 THEN Raise("UnboundLocalError")
        ELSE Return(<<>>)

\* scipy.ndimage.map_coordinates(input, coordinates) for a 2-D input: the
\* first axis of coordinates must be as long as the input has axes; sample j
\* is taken at (coordinates[0][j], coordinates[1][j]), which at a whole-number
\* position inside the array is the array's value there and outside it is 0.
map_coordinates(input, coordinates) ==
    IF Len(coordinates) # 2 THEN Raise("RuntimeError")
    ELSE Return([j \in 1..Len(coordinates[1]) |->
                    LET r == coordinates[1][j]
                        c == coordinates[2][j]
                    IN  IF r \in 0..(Len(input) - 1) /\ c \in 0..(Len(input[1]) - 1)
                        THEN input[r + 1][c + 1] ELSE 0])

\* A step that clears its values array in place before it computes anything;
\* the array is the target field's own (line 103).
step_in_place(self, duration) ==
    LET cleared == [r \in DOMAIN self.values |-> [c \in DOMAIN self.values[r] |-> 0]]
    IN  [self |-> [self EXCEPT !.values = cleared, !.target_field.values = cleared],
         out |-> compute_new_indexes(self, duration)]

\* step: what it returns or raises, and self.values when it ends.
step(self, duration) ==
    LET wind_offset_coords == compute_new_indexes(self, duration)
        mapped == map_coordinates(self.values, wind_offset_coords.val)
    IN  IF wind_offset_coords.raised THEN [self |-> self, out |-> wind_offset_coords]
        ELSE IF mapped.raised THEN [self |-> self, out |-> mapped]
        ELSE [self |-> [self EXCEPT !.values = mapped.val], out |-> mapped]

\* ---------------------------------------------------- SpecProj: its inputs
\* A row of five cells one degree apart on the equator, and two grids of two
\* cells with different shapes.
ProjGrids == {from_unique_arrays(<<0>>, <<0, 1, 2, 3, 4>>),
              from_unique_arrays(<<0>>, <<0, 1>>),
              from_unique_arrays(<<0, 1>>, <<0>>)}
Uniform(g, w) == [i \in 1..GridSize(g) |-> w]
Ramp(g) == [i \in 1..GridSize(g) |-> i]
MadeField(values, g) == GriddedField(values, g, <<>>).val
TargetFields == {MadeField(Ramp(g), g) : g \in ProjGrids}
WindFields == {MadeField(Uniform(g, w), g) : g \in ProjGrids, w \in {0, 1}}
                \cup {MadeField(Ramp(g), g) : g \in ProjGrids}
Durations == {STEP_DURATION, 2 * STEP_DURATION}

InitProj ==
    /\ grid_call = NoCall
    /\ grid_out = NoCall
    /\ CacheAtImport
    /\ NoProjector
    /\ NoWx

\* WindSkewProjector(target, u, v), the whole constructor.
NewProjector ==
    /\ proj_out = NoCall
    /\ \E target \in TargetFields, u \in WindFields, v \in WindFields :
        LET made == WindSkewProjector(target, u, v)
        IN  /\ proj' = made.self
            /\ proj_out' = made.out
    /\ UNCHANGED <<step_call, step_out, nsteps, gridVars, cacheVars, wxVars>>

\* projector.step(duration), the whole call.
Call_step ==
    /\ proj_out # NoCall
    /\ ~proj_out.raised
    /\ nsteps < MaxSteps
    /\ \E duration \in Durations :
        LET done == step(proj, duration)
        IN  /\ proj' = done.self
            /\ step_out' = done.out
            /\ step_call' = duration
    /\ nsteps' = nsteps + 1
    /\ UNCHANGED <<proj_out, gridVars, cacheVars, wxVars>>

NextProj ==
    \/ NewProjector
    \/ Call_step

SpecProj == InitProj /\ [][NextProj]_vars

\* ------------------------------------------------------ claims: projector
Constructed == proj_out # NoCall
ShapesDiffer ==
    ~(proj.target_field.shape = proj.u_wind_field.shape
      /\ proj.u_wind_field.shape = proj.v_wind_field.shape)

AllCells(values, w) == \A r \in DOMAIN values : \A c \in DOMAIN values[r] : values[r][c] = w
ZeroWind == AllCells(proj.u_wind_field.values, 0) /\ AllCells(proj.v_wind_field.values, 0)

\* C5: on a projector whose u and v fields are zero in every cell, every step
\* call, whatever its duration, returns and leaves values equal to the target
\* field's values in every cell.
C5_ZeroWindSteps ==
    (Constructed /\ ~proj_out.raised /\ ZeroWind /\ nsteps > 0)
        => /\ ~step_out.raised
           /\ proj.values = proj.target_field.values

\* C6: with a uniform eastward wind of one cell per step and no north-south
\* wind, one step turns the 1x5 row [1,2,3,4,5] into [1,1,2,3,4].
C6_ShiftEastByOne ==
    (/\ Constructed
     /\ ~proj_out.raised
     /\ proj.target_field.values = <<<<1, 2, 3, 4, 5>>>>
     /\ AllCells(proj.u_wind_field.values, 1)
     /\ AllCells(proj.v_wind_field.values, 0)
     /\ nsteps = 1
     /\ step_call = STEP_DURATION)
        => /\ ~step_out.raised
           /\ proj.values = <<<<1, 1, 2, 3, 4>>>>

Stepped == Constructed /\ ~proj_out.raised /\ nsteps > 0

\* The cells of the projector's grid as (lat_idx, lon_idx, lat).
ProjCells ==
    {<<i \div proj.target_field.shape[2], i % proj.target_field.shape[2],
       proj.target_field.lats[i + 1]>> : i \in 0..(Len(proj.target_field.lats) - 1)}

\* C17: a step returns, and the row displacement it computes for a cell is
\* the same on every projector that differs from this one only in its u field.
C17_RowFromVOnly ==
    Stepped =>
        /\ ~step_out.raised
        /\ \A u2 \in {f \in WindFields : f.shape = proj.u_wind_field.shape} :
             \A cell \in ProjCells :
                v_wind([proj EXCEPT !.u_wind_field = u2], cell[1], cell[2], cell[3], step_call)
                    = v_wind(proj, cell[1], cell[2], cell[3], step_call)

\* C18: a step computes source coordinates, and each of them satisfies
\* 0 <= row <= shape[0] and 0 <= col <= shape[1].
C18_SourceCoordsClamped ==
    Stepped =>
        LET coords == compute_new_indexes(proj, step_call)
        IN  /\ ~coords.raised
            /\ \A j \in DOMAIN coords.val :
                 /\ 0 <= coords.val[j][1] /\ coords.val[j][1] <= proj.target_field.shape[1]
                 /\ 0 <= coords.val[j][2] /\ coords.val[j][2] <= proj.target_field.shape[2]

\* C19: no step call changes the target field, the u field or the v field of
\* a projector: whatever a step changes, it is not one of its inputs.
C19_StepsLeaveInputs ==
    [][(Constructed /\ ~proj_out.raised)
        => /\ proj'.target_field = proj.target_field
           /\ proj'.u_wind_field = proj.u_wind_field
           /\ proj'.v_wind_field = proj.v_wind_field]_vars

\* Two step calls were made on a projector.
C19_Witness ==
    /\ Constructed
    /\ ~proj_out.raised
    /\ nsteps = 2
    /\ proj.target_field.values = <<<<1, 2, 3, 4, 5>>>>

\* C20: each step call returns the array it stores as the projector's values.
C20_StepReturnsStoredValues ==
    Stepped =>
        /\ ~step_out.raised
        /\ step_out.val = proj.values

\* ------------------------------------------ claims: nearest-neighbour query
FinishedNearest(t) == Finished(t) /\ thr[t].call.name = "nearest_point"
\* The flat positions of a grid's points that lie exactly at q.
PointsAt(g, q) == {i \in 1..Len(g.lats) : g.lats[i] = q[1] /\ g.lons[i] = q[2]}

\* C11: a k=1 query at the exact (lat, lon) of a grid point whose coordinates
\* are unique in the grid returns the (row, col) of that point.
C11_ExactPointFindsItself ==
    LET me == fields[thr[MainThread].self]
        q == thr[MainThread].call.q
    IN  (FinishedNearest(MainThread) /\ Cardinality(PointsAt(me.grid, q)) = 1)
            => /\ ~thr[MainThread].out.raised
               /\ LET rc == thr[MainThread].out.val
                  IN  rc[1] * me.shape[2] + rc[2] + 1 \in PointsAt(me.grid, q)

\* The query points a call hands to k_nearest_points.
QueryPointsOf(call) ==
    IF call.name = "nearest_point" THEN <<call.q>>
    ELSE pairs_of(call.grid.lats, call.grid.lons)

\* C12: k_nearest_points with k=1 yields one (row, col) result per query
\* point, for one query point as for many.
C12_OneResultPerQueryPoint ==
    thr[MainThread].pc \in {"L76", "L84"}
        => Len(thr[MainThread].ret) = Len(QueryPointsOf(thr[MainThread].call))

\* ------------------------------------------- claims: values and grid shapes
\* The number of elements of an array of the given shape.
Count(shape) == IF Len(shape) = 1 THEN shape[1] ELSE shape[1] * shape[2]

\* C13: every constructed GriddedField has values of its grid's shape; the
\* constructor, called directly or by zoom, fails exactly when the element
\* count of its input differs from the grid's point count, and a field it
\* makes is bound to the grid it was given.
C13_ValuesShapeIsGridShape ==
    /\ \A i \in DOMAIN fields : HasGridShape(fields[i])
    /\ ctor_call # NoCall =>
        /\ ctor_out.raised <=> Count(ctor_call.in_shape) # GridSize(ctor_call.grid)
        /\ ~ctor_out.raised => fields[ctor_out.val].grid = ctor_call.grid

\* A flat array of four values was reshaped to a 2x2 grid, and a zoom of that
\* field onto a two-point grid handed a 2x2 array to the constructor, which
\* failed.
C13_Witness ==
    /\ \E i \in DOMAIN fields : fields[i].shape = <<2, 2>> /\ Len(fields[i].values[1]) = 2
    /\ ctor_call # NoCall
    /\ ctor_call.in_shape = <<2, 2>>
    /\ GridSize(ctor_call.grid) = 2
    /\ ctor_out.raised

\* --------------------------------------------------------- clean_old_datas
\* Time is counted in ticks of half a day; timedelta(days=1) is Day ticks.
Day == 2

FileNames == {"a", "b"}
Times == 0..MaxTime

InitClean ==
    /\ grid_call = NoCall
    /\ grid_out = NoCall
    /\ CacheAtImport
    /\ NoProjector
    /\ NoCleanup
    /\ NoCluster
    /\ NoWindow

\* The clock moves on.
Tick ==
    /\ now < MaxTime
    /\ now' = now + 1
    /\ UNCHANGED <<file_meta, band_meta, s3, clean, nbands, gridVars, cacheVars, projVars, clusterVars,
                   windowVars>>

\* Ingestion stores a new file: its object, and its FileMeta row with the
\* present time as ctime.
Ingest_create_file ==
    /\ \E name \in FileNames :
        /\ name \notin s3
        /\ \A f \in file_meta : f.file_name # name
        /\ s3' = s3 \cup {name}
        /\ file_meta' = file_meta \cup {[file_name |-> name, ctime |-> now]}
    /\ UNCHANGED <<now, band_meta, clean, nbands, gridVars, cacheVars, projVars, clusterVars,
                   windowVars>>

\* Ingestion commits a FileBandMeta row for a file that has a FileMeta row.
Ingest_add_band ==
    /\ nbands < MaxBands
    /\ \E f \in file_meta : \E valid_time \in Times :
        band_meta' = band_meta \cup {[file_name |-> f.file_name, valid_time |-> valid_time]}
    /\ nbands' = nbands + 1
    /\ UNCHANGED <<now, file_meta, s3, clean, gridVars, cacheVars, projVars, clusterVars,
                   windowVars>>

\* Line 16: max_age = datetime.utcnow() - timedelta(days=1)
Clean_L16 ==
    /\ clean.pc = "idle"
    /\ clean.ncleans < MaxCleans
    /\ clean' = [pc |-> "L18", max_age |-> now - Day, files |-> {}, out |-> NoCall,
                 ncleans |-> clean.ncleans + 1]
    /\ UNCHANGED <<now, file_meta, band_meta, s3, nbands, gridVars, cacheVars, projVars, clusterVars,
                   windowVars>>

\* Lines 18-19: the band rows with valid_time < max_age are deleted, and the
\* deletion is committed.
Clean_L18 ==
    /\ clean.pc = "L18"
    /\ band_meta' = {b \in band_meta : ~(b.valid_time < clean.max_age)}
    /\ clean' = [clean EXCEPT !.pc = "L21"]
    /\ UNCHANGED <<now, file_meta, s3, nbands, gridVars, cacheVars, projVars, clusterVars,
                   windowVars>>

\* Lines 21-24: the FileMeta rows whose file_name no FileBandMeta row holds
\* and whose ctime <= max_age.
Clean_L21 ==
    /\ clean.pc = "L21"
    /\ clean' = [clean EXCEPT
            !.files = {f \in file_meta :
                        /\ f.file_name \notin {b.file_name : b \in band_meta}
                        /\ f.ctime <= clean.max_age},
            !.pc = "L27"]
    /\ UNCHANGED <<now, file_meta, band_meta, s3, nbands, gridVars, cacheVars, projVars, clusterVars,
                   windowVars>>

\* Lines 26-27: s3.delete_objects for the keys of files. A request that names
\* no object is refused by S3 (ClientError) and accepted by other stores.
Clean_L27 ==
    /\ clean.pc = "L27"
    /\ \/ /\ s3' = s3 \ {f.file_name : f \in clean.files}
          /\ clean' = [clean EXCEPT !.pc = "L29"]
       \/ /\ clean.files = {}
          /\ s3' = s3
          /\ clean' = [clean EXCEPT !.pc = "idle", !.out = Raise("ClientError")]
    /\ UNCHANGED <<now, file_meta, band_meta, nbands, gridVars, cacheVars, projVars, clusterVars,
                   windowVars>>

\* Lines 29-31: the FileMeta rows of files are deleted, and the deletion is
\* committed.
Clean_L29 ==
    /\ clean.pc = "L29"
    /\ file_meta' = file_meta \ clean.files
    /\ clean' = [clean EXCEPT !.pc = "idle", !.out = Return("None")]
    /\ UNCHANGED <<now, band_meta, s3, nbands, gridVars, cacheVars, projVars, clusterVars,
                   windowVars>>

NextClean ==
    \/ Tick
    \/ Ingest_create_file
    \/ Ingest_add_band
    \/ Clean_L16
    \/ Clean_L18
    \/ Clean_L21
    \/ Clean_L27
    \/ Clean_L29

SpecClean == InitClean /\ [][NextClean]_vars

\* ------------------------------------------------- claims: clean_old_datas
\* The file names whose object or whose FileMeta row a step removes.
DeletedNow ==
    (s3 \ s3') \cup ({f.file_name : f \in file_meta} \ {f.file_name : f \in file_meta'})

in_cluster_default(x, prior) == x # 0

\* PrecipEvent.CLASSIFICATIONS, a class per range of dBZ.
CLASSIFICATIONS(v) ==
    IF v \in 15..29 THEN "light"
    ELSE IF v \in 30..39 THEN "moderate"
    ELSE IF v \in 40..54 THEN "heavy"
    ELSE "extreme"

\* PrecipEvent.clusterer (line 134).
clusterer(refl, prior) ==
    refl >= 15 /\ (Len(prior) = 0
                   \/ CLASSIFICATIONS(refl) = CLASSIFICATIONS(prior[Len(prior)]))

in_cluster(kind, v, prior) ==
    IF kind = "default" THEN in_cluster_default(v, prior) ELSE clusterer(v, prior)

\* sorted(data_points, key=lambda d: d.valid_time): stable, points of equal
\* valid_time keep their order.
insert_by_valid_time(s, x) ==
    LET k == Cardinality({i \in 1..Len(s) : s[i].valid_time <= x.valid_time})
    IN  SubSeq(s, 1, k) \o <<x>> \o SubSeq(s, k + 1, Len(s))
RECURSIVE sorted_by_valid_time(_)
sorted_by_valid_time(data_points) ==
    IF data_points = <<>> THEN <<>>
    ELSE insert_by_valid_time(
            sorted_by_valid_time(SubSeq(data_points, 1, Len(data_points) - 1)),
            data_points[Len(data_points)])

\* A loop body that ends a cluster at every point outside it, however close.
loop_body_no_gap_check(loc, data_point, kind, time_threshold) ==
    LET v == data_point.median
        ends == ~in_cluster(kind, v, loc.values) /\ loc.last # None
        first1 == IF ends THEN None ELSE loc.first
        last1 == IF ends THEN None ELSE loc.last
        values1 == IF ends THEN <<>> ELSE loc.values
        joins == in_cluster(kind, v, values1)
    IN  [first |-> IF joins /\ first1 = None THEN data_point.valid_time ELSE first1,
         last |-> IF joins THEN data_point.valid_time ELSE last1,
         values |-> IF joins THEN Append(values1, v) ELSE values1,
         yields |-> IF ends THEN <<(<<loc.first, loc.last, loc.values>>)>> ELSE <<>>]

\* Lines 49-62, one pass of the loop: the locals after it, and what it yields.
loop_body(loc, data_point, kind, time_threshold) ==
    LET v == data_point.median
        ends == /\ ~in_cluster(kind, v, loc.values)
                /\ loc.last # None
                /\ data_point.valid_time - loc.last > time_threshold
        first1 == IF ends THEN None ELSE loc.first
        last1 == IF ends THEN None ELSE loc.last
        values1 == IF ends THEN <<>> ELSE loc.values
        joins == in_cluster(kind, v, values1)
    IN  [first |-> IF joins /\ first1 = None THEN data_point.valid_time ELSE first1,
         last |-> IF joins THEN data_point.valid_time ELSE last1,
         values |-> IF joins THEN Append(values1, v) ELSE values1,
         yields |-> IF ends THEN <<(<<loc.first, loc.last, loc.values>>)>> ELSE <<>>]

\* --------------------------------------------------- SpecCluster: its inputs
Hours == 1..MaxHour
Medians == {0, 15, 30}
DataPointSets == [valid_time : Hours, median : Medians]
\* The calls: the default in_cluster with a threshold of one hour and with
\* the default of three (line 39), and PrecipEvent.clusterer.
ClusterCalls ==
    {[name |-> "cluster", data_points |-> d, in_cluster |-> c[1], time_threshold |-> c[2]] :
        d \in SeqsUpTo(DataPointSets, MaxPoints),
        c \in {<<"default", 1>>, <<"default", 3>>, <<"clusterer", 1>>}}

InitCluster ==
    /\ grid_call = NoCall
    /\ grid_out = NoCall
    /\ CacheAtImport
    /\ NoProjector
    /\ NoCleanup
    /\ NoWindow
    /\ yielded = <<>>
    /\ cl \in {[pc |-> "L44", call |-> c, sorted |-> <<>>, i |-> 0,
                 first |-> None, last |-> None, values |-> <<>>] : c \in ClusterCalls}

\* Lines 44-48: the locals are set and the data points sorted.
Cluster_L44 ==
    /\ cl.pc = "L44"
    /\ cl' = [cl EXCEPT !.pc = "L48", !.sorted = sorted_by_valid_time(cl.call.data_points),
                        !.i = 1, !.first = None, !.last = None, !.values = <<>>]
    /\ UNCHANGED <<yielded, gridVars, cacheVars, projVars, cleanVars,
                   windowVars>>

\* Lines 48-62: one pass of the loop over the sorted data points.
Cluster_loop ==
    /\ cl.pc = "L48"
    /\ cl.i <= Len(cl.sorted)
    /\ LET after == loop_body([first |-> cl.first, last |-> cl.last, values |-> cl.values],
                             cl.sorted[cl.i], cl.call.in_cluster, cl.call.time_threshold)
       IN  /\ cl' = [cl EXCEPT !.first = after.first, !.last = after.last,
                               !.values = after.values, !.i = cl.i + 1]
           /\ yielded' = yielded \o after.yields
    /\ UNCHANGED <<gridVars, cacheVars, projVars, cleanVars,
                   windowVars>>

\* The data points are exhausted: the generator ends.
Cluster_end ==
    /\ cl.pc = "L48"
    /\ cl.i > Len(cl.sorted)
    /\ cl' = [cl EXCEPT !.pc = "done"]
    /\ UNCHANGED <<yielded, gridVars, cacheVars, projVars, cleanVars,
                   windowVars>>

NextCluster ==
    \/ Cluster_L44
    \/ Cluster_loop
    \/ Cluster_end

SpecCluster == InitCluster /\ [][NextCluster]_vars

\* --------------------------------------------------------- claims: cluster
\* C22: every tuple (first, last, values) that cluster yields has a non-empty
\* values list and first <= last, and each later tuple's first time is more
\* than time_threshold after the last time of the tuple before it.
C22_ClustersOrderedAndApart ==
    /\ \A k \in 1..Len(yielded) :
        /\ yielded[k][3] # <<>>
        /\ yielded[k][1] # None
        /\ yielded[k][2] # None
        /\ yielded[k][1] <= yielded[k][2]
    /\ \A k \in 1..(Len(yielded) - 1) :
        yielded[k + 1][1] - yielded[k][2] > cl.call.time_threshold

\* The generator has ended after two clusters, the second of which began at
\* the data point that ended the first.
C22_Witness ==
    /\ cl.pc = "done"
    /\ Len(yielded) = 2
    /\ yielded[1] = <<1, 1, <<15>>>>
    /\ yielded[2] = <<3, 3, <<30>>>>

\* ------------------------------------------------------- wx_for_location
\* The query window of wx_for_location, which src/wx_explore/web/api and
\* src/wx_explore/web/data each define. A datetime is a day count since the
\* epoch and a second of that day; a timedelta is days and seconds.
datetime(day, second) ==
    [day |-> day + (second \div 86400), second |-> second % 86400]
timedelta(days, hours) == [days |-> days, seconds |-> hours * 3600]
dt_add(d, td) == datetime(d.day + td.days, d.second + td.seconds)
dt_sub(d, td) == datetime(d.day - td.days, d.second - td.seconds)
dt_lt(a, b) == a.day < b.day \/ (a.day = b.day /\ a.second < b.second)

\* A query argument is absent, or the decimal text of an integer, or the
\* decimal text of an integer past the year 9999, or a text that is no integer.
Absent == [kind |-> "absent"]
Digits(n) == [kind |-> "digits", value |-> n]
LongDigits == [kind |-> "long_digits"]
NotDigits == [kind |-> "not_digits"]

\* request.args.get(key, type=int) of the api controller gives None for an
\* absent argument and for one int() rejects; request.args.get(key) of the
\* data controller gives None for an absent argument and the text otherwise.
args_get(controller, arg) ==
    IF controller = "api" /\ arg = NotDigits THEN Absent ELSE arg

\* The integer handed to utcfromtimestamp: the api controller holds it
\* already, the data controller calls int() on the text.
to_int(controller, v) ==
    IF controller = "data" /\ v = NotDigits THEN Raise("ValueError") ELSE Return(v)

\* datetime.utcfromtimestamp: the naive UTC datetime that many seconds after
\* the epoch; a year past 9999 raises.
utcfromtimestamp(v) ==
    IF v = LongDigits THEN Raise("ValueError") ELSE Return(datetime(0, v.value))

\* Lines 132-139 without the check of lines 137-139.
start_used_unclamped(controller, debug, utcnow, arg) ==
    LET start == args_get(controller, arg) IN
    IF start = Absent THEN Return(dt_sub(utcnow, timedelta(0, 1)))
    ELSE LET n == to_int(controller, start) IN
         IF n.raised THEN n ELSE utcfromtimestamp(n.val)

\* Lines 132-139 (api) and 133-140 (data): the start of the window.
start_used(controller, debug, utcnow, arg) ==
    LET start == args_get(controller, arg) IN
    IF start = Absent THEN Return(dt_sub(utcnow, timedelta(0, 1)))
    ELSE LET n == to_int(controller, start) IN
         IF n.raised THEN n
         ELSE LET t == utcfromtimestamp(n.val) IN
              IF t.raised THEN t
              ELSE IF ~debug /\ dt_lt(t.val, dt_sub(utcnow, timedelta(1, 0)))
                   THEN Return(dt_sub(utcnow, timedelta(1, 0)))
                   ELSE t

\* Lines 141-148 (api) and 142-149 (data): the end of the window.
end_used(controller, debug, utcnow, arg) ==
    LET end == args_get(controller, arg) IN
    IF end = Absent THEN Return(dt_add(utcnow, timedelta(0, 12)))
    ELSE LET n == to_int(controller, end) IN
         IF n.raised THEN n
         ELSE LET t == utcfromtimestamp(n.val) IN
              IF t.raised THEN t
              ELSE IF ~debug /\ dt_lt(dt_add(utcnow, timedelta(7, 0)), t.val)
                   THEN Return(dt_add(utcnow, timedelta(7, 0)))
                   ELSE t

\* The clock readings, in seconds since the epoch, and the timestamps a
\* request names: either side of each limit of the window, and one before
\* the epoch.
NowSeconds == {1000000, 1040000}
Offsets == {-2 * 86400, -86400 - 1, -86400, -3600, 0, 12 * 3600,
            7 * 86400, 7 * 86400 + 1, 8 * 86400}
Timestamps == {n + d : n \in NowSeconds, d \in Offsets} \cup {-1}
Args == {Absent, NotDigits, LongDigits} \cup {Digits(n) : n \in Timestamps}
Requests ==
    [controller : {"api", "data"}, debug : BOOLEAN, found : BOOLEAN,
     start : Args, end : Args]

InitWindow ==
    /\ grid_call = NoCall
    /\ grid_out = NoCall
    /\ CacheAtImport
    /\ NoProjector
    /\ NoCleanup
    /\ NoCluster
    /\ req \in {[pc |-> "L115", call |-> c, now |-> NoCall, start |-> NoCall,
                  end |-> NoCall, out |-> NoCall] : c \in Requests}

\* What precedes the window: the api controller aborts on a missing or
\* out-of-range lat or lon, the data controller on an unknown location.
Wx_L115 ==
    /\ req.pc = "L115"
    /\ req' = IF req.call.found
              THEN [req EXCEPT !.pc = "L128"]
              ELSE [req EXCEPT !.pc = "done", !.out = Raise("HTTPException")]
    /\ UNCHANGED <<gridVars, cacheVars, projVars, cleanVars, clusterVars>>

\* now = datetime.utcnow()
Wx_L128 ==
    /\ req.pc = "L128"
    /\ \E n \in NowSeconds :
         req' = [req EXCEPT !.pc = "L132", !.now = datetime(0, n)]
    /\ UNCHANGED <<gridVars, cacheVars, projVars, cleanVars, clusterVars>>

Wx_L132 ==
    /\ req.pc = "L132"
    /\ LET r == start_used(req.call.controller, req.call.debug, req.now, req.call.start) IN
       req' = IF r.raised
              THEN [req EXCEPT !.pc = "done", !.out = r]
              ELSE [req EXCEPT !.pc = "L141", !.start = r.val]
    /\ UNCHANGED <<gridVars, cacheVars, projVars, cleanVars, clusterVars>>

Wx_L141 ==
    /\ req.pc = "L141"
    /\ LET r == end_used(req.call.controller, req.call.debug, req.now, req.call.end) IN
       req' = IF r.raised
              THEN [req EXCEPT !.pc = "done", !.out = r]
              ELSE [req EXCEPT !.pc = "L155", !.end = r.val]
    /\ UNCHANGED <<gridVars, cacheVars, projVars, cleanVars, clusterVars>>

\* The query is made over [start, end).
Wx_L155 ==
    /\ req.pc = "L155"
    /\ req' = [req EXCEPT !.pc = "done",
                          !.out = Return([start |-> req.start, end |-> req.end])]
    /\ UNCHANGED <<gridVars, cacheVars, projVars, cleanVars, clusterVars>>

NextWindow == Wx_L115 \/ Wx_L128 \/ Wx_L132 \/ Wx_L141 \/ Wx_L155
SpecWindow == InitWindow /\ [][NextWindow]_vars

Queried == req.pc = "done" /\ ~req.out.raised

\* C23: in non-debug mode the start of the window queried is never earlier
\* than now minus 1 day and its end never later than now plus 7 days,
\* whatever start and end the request names; an omitted start is now minus
\* 1 hour and an omitted end is now plus 12 hours.
C23_WindowBounded ==
    Queried =>
        LET w == req.out.val IN
        /\ ~req.call.debug =>
            /\ ~dt_lt(w.start, dt_sub(req.now, timedelta(1, 0)))
            /\ ~dt_lt(dt_add(req.now, timedelta(7, 0)), w.end)
        /\ req.call.start = Absent => w.start = dt_sub(req.now, timedelta(0, 1))
        /\ req.call.end = Absent => w.end = dt_add(req.now, timedelta(0, 12))

\* A non-debug request naming a start two days back and an end eight days
\* ahead has been served over the clamped window.
C23_Witness ==
    /\ Queried
    /\ ~req.call.debug
    /\ req.now = datetime(0, 1000000)
    /\ req.call.start = Digits(1000000 - 2 * 86400)
    /\ req.call.end = Digits(1000000 + 8 * 86400)
    /\ req.out.val.start = datetime(0, 1000000 - 86400)
    /\ req.out.val.end = datetime(0, 1000000 + 7 * 86400)

====
